---- MODULE Spec2Model ----
(***************************************************************************)
(* Model of the Pet application: the cached mongoose connection            *)
(* (lib/mongodb.js), the Pet schema (lib/models/Pet.js), the two variants  *)
(* of the /api/pets route handlers and the home page (app/page.js).        *)
(*                                                                         *)
(* JavaScript runs one job at a time.  An async function runs             *)
(* synchronously up to its first await; the continuation of an await is a  *)
(* promise reaction job, appended to the FIFO microtask queue when the     *)
(* awaited promise settles (or at once when it is already settled).        *)
(* Each action below is one such job, or the queuing of one.               *)
(***************************************************************************)
EXTENDS Integers, Sequences, FiniteSets, TLC

VARIABLES cached, attempts, waiters, microtasks, calls, env, route, reqs,
          store

vars == <<cached, attempts, waiters, microtasks, calls, env, route, reqs,
          store>>

appVars == <<env, route, reqs, store>>

connVars == <<cached, attempts, waiters, microtasks, calls>>

(* ---- bounds ---- *)
MaxCalls == 5
MaxAttempts == 3
MaxReq == 2

(* null of cached.conn and cached.promise; attempts are numbered 1, 2, ..  *)
Null == 0

(***************************************************************************)
(* lib/mongodb.js                                                          *)
(***************************************************************************)

(* The value every successful mongoose.connect resolves with: the Mongoose *)
(* instance itself, which the .then callback returns unchanged.            *)
Mongoose == 1

(* calls[c].pc: "awaiting" (parked on a pending promise), "queued" (its    *)
(* continuation is in the microtask queue), "returned", "threw".           *)
NewCall(pc, att, result) == [pc |-> pc, att |-> att, result |-> result]

Pending == {a \in 1..Len(attempts) : attempts[a] = "pending"}

HasConnNever == FALSE

(* if (cached.conn) *)
HasConn == cached.conn # Null

NoPromiseAlways == TRUE

(* if (!cached.promise) *)
NoPromise == cached.promise = Null

(* process.env: a function from the variables that are defined to their   *)
(* values.                                                                 *)
Envs == {<<>>,
         [k \in {"MONGODB_URI"} |-> ""],
         [k \in {"MONGODB_URI"} |-> "mongodb+srv://cluster0/pets"]}

HasUriAlways == TRUE

(* const MONGODB_URI = process.env.MONGODB_URI; if (!MONGODB_URI) throw:   *)
(* the module is evaluated, and dbConnect defined, only with a value that  *)
(* is neither undefined nor empty.                                         *)
HasUri == "MONGODB_URI" \in DOMAIN env /\ env["MONGODB_URI"] # ""

(* Jobs of the microtask queue. *)
StartJob == [type |-> "start", id |-> Null, outcome |-> "none"]

ResumeJob(c) == [type |-> "resume", id |-> c, outcome |-> "none"]

SettleJob(a, outcome) == [type |-> "settle", id |-> a, outcome |-> outcome]

Queued(type) == {i \in 1..Len(microtasks) : microtasks[i].type = type}

(* dbConnect(), from its entry to the first suspension (or to the return   *)
(* of the cached handle), run by the job at the head of the queue.  No     *)
(* await separates the test of cached.promise from its assignment.         *)
(* `await p` on a pending promise registers the continuation as a reaction *)
(* of p; on a settled one it queues the continuation at once.              *)
dbConnect ==
    /\ HasUri
    /\ microtasks # <<>>
    /\ Head(microtasks).type = "start"
    /\ IF HasConn
       THEN /\ calls' = Append(calls, NewCall("returned", Null, cached.conn))
            /\ microtasks' = Tail(microtasks)
            /\ UNCHANGED <<cached, attempts, waiters>>
       ELSE LET c == Len(calls) + 1
                fresh == NoPromise
                a == IF fresh THEN Len(attempts) + 1 ELSE cached.promise
                attempts1 == IF fresh THEN Append(attempts, "pending")
                                      ELSE attempts
                waiters1 == IF fresh THEN Append(waiters, <<>>) ELSE waiters
            IN /\ fresh => Len(attempts) < MaxAttempts
               /\ attempts' = attempts1
               /\ cached' = [cached EXCEPT !.promise = a]
               /\ IF attempts1[a] = "pending"
                  THEN /\ waiters' = [waiters1 EXCEPT ![a] = Append(@, c)]
                       /\ calls' = Append(calls, NewCall("awaiting", a, Null))
                       /\ microtasks' = Tail(microtasks)
                  ELSE /\ waiters' = waiters1
                       /\ calls' = Append(calls, NewCall("queued", a, Null))
                       /\ microtasks' = Append(Tail(microtasks), ResumeJob(c))

(* The promise of mongoose.connect(...).then(...) settles, in the job at   *)
(* the head of the queue: the reactions registered on it are queued        *)
(* together, in registration order.                                        *)
Settle ==
    /\ microtasks # <<>>
    /\ Head(microtasks).type = "settle"
    /\ LET a == Head(microtasks).id
       IN /\ attempts' = [attempts EXCEPT ![a] = Head(microtasks).outcome]
          /\ microtasks' = Tail(microtasks) \o
                [i \in 1..Len(waiters[a]) |-> ResumeJob(waiters[a][i])]
          /\ waiters' = [waiters EXCEPT ![a] = <<>>]
          /\ calls' = [c \in 1..Len(calls) |->
                         IF calls[c].pc = "awaiting" /\ calls[c].att = a
                         THEN [calls[c] EXCEPT !.pc = "queued"] ELSE calls[c]]
    /\ UNCHANGED cached

(* The job that would call dbConnect imports lib/mongodb.js, whose         *)
(* evaluation throws without a MONGODB_URI: the job ends there.            *)
ImportThrows ==
    /\ ~HasUri
    /\ microtasks # <<>>
    /\ Head(microtasks).type = "start"
    /\ microtasks' = Tail(microtasks)
    /\ UNCHANGED <<cached, attempts, waiters, calls>>

(* catch (e) { cached.promise = null; throw e; } *)
CatchBlock == [cached EXCEPT !.promise = Null]

(* The continuation of `cached.conn = await cached.promise` in the call    *)
(* whose job is at the head of the queue: the assignment and the return,   *)
(* or the catch block.                                                     *)
Resume ==
    /\ microtasks # <<>>
    /\ Head(microtasks).type = "resume"
    /\ LET c == Head(microtasks).id
           a == calls[c].att
       IN /\ microtasks' = Tail(microtasks)
          /\ IF attempts[a] = "fulfilled"
             THEN /\ cached' = [cached EXCEPT !.conn = Mongoose]
                  /\ calls' = [calls EXCEPT ![c] =
                                 NewCall("returned", a, Mongoose)]
             ELSE /\ cached' = CatchBlock
                  /\ calls' = [calls EXCEPT ![c] = NewCall("threw", a, Null)]
    /\ UNCHANGED <<attempts, waiters>>

(***************************************************************************)
(* The environment: the framework invokes a handler (and with it           *)
(* dbConnect) in a job of its own, and the driver completes a connection   *)
(* attempt in a job of its own.  A job queued on an empty queue is a       *)
(* macrotask.                                                              *)
(***************************************************************************)
Invoke(limit) ==
    /\ Len(calls) + Cardinality(Queued("start")) < limit
    /\ microtasks' = Append(microtasks, StartJob)
    /\ UNCHANGED <<cached, attempts, waiters, calls>>

Complete(outcome) ==
    \E a \in Pending :
        /\ \A i \in Queued("settle") : microtasks[i].id # a
        /\ microtasks' = Append(microtasks, SettleJob(a, outcome))
        /\ UNCHANGED <<cached, attempts, waiters, calls>>

InitConn ==
    /\ cached = [conn |-> Null, promise |-> Null]
    /\ attempts = <<>>
    /\ waiters = <<>>
    /\ microtasks = <<>>
    /\ calls = <<>>

(* The two versions of app/api/pets/route.js in the repository, by how     *)
(* POST builds its redirect; a process runs one of them.                   *)
Variants == {"referer", "homeUrl"}

Init ==
    /\ InitConn
    /\ env \in Envs
    /\ route \in Variants
    /\ reqs = <<>>
    /\ store = <<>>

(* A specification of the connection cache alone: the callers of dbConnect *)
(* are the call sites, with nothing else modelled of them.                 *)
InvokeCaller == Invoke(MaxCalls) /\ UNCHANGED appVars

Caller == dbConnect /\ UNCHANGED appVars

CallerImportThrows == ImportThrows /\ UNCHANGED appVars

ConnectSucceeds == Complete("fulfilled") /\ UNCHANGED appVars

ConnectFails == Complete("rejected") /\ UNCHANGED appVars

PromiseSettles == Settle /\ UNCHANGED appVars

CallerResumes == Resume /\ UNCHANGED appVars

NextConn ==
    \/ InvokeCaller
    \/ Caller
    \/ CallerImportThrows
    \/ ConnectSucceeds
    \/ ConnectFails
    \/ PromiseSettles
    \/ CallerResumes

SpecConn == Init /\ [][NextConn]_vars

(***************************************************************************)
(* lib/models/Pet.js: the schema                                           *)
(***************************************************************************)

(* maxlength: [60, ...] of both paths *)
MaxLength == 60

(* A string is the sequence of its characters. *)
Str(ch, n) == [i \in 1..n |-> ch]

(* Object.fromEntries(formData): an object is a function from the keys     *)
(* that are present to their values.                                       *)
Paths == {"name", "owner_name"}

(* required: [true, ...] on a String path: fails for an absent value and   *)
(* for the empty string.                                                   *)
Required(doc, path) == path \in DOMAIN doc /\ Len(doc[path]) > 0

MaxLengthOffByOne(doc, path) ==
    path \in DOMAIN doc => Len(doc[path]) <= MaxLength + 1

(* maxlength: [60, ...]: fails for a present value longer than 60.         *)
MaxLengthOk(doc, path) == path \in DOMAIN doc => Len(doc[path]) <= MaxLength

(* The paths of PetSchema that fail validation. *)
PetSchema(doc) == {path \in Paths : ~Required(doc, path) \/ ~MaxLengthOk(doc, path)}

(* ObjectId of the n-th document, and ObjectId.prototype.toString. *)
ObjectId(n) == [oid |-> n]

HexDigits == <<"1", "2", "3", "4", "5", "6", "7", "8", "9", "a", "b", "c", "d", "e", "f">>

toString(id) == <<"i", "d", HexDigits[id.oid]>>

(* The document Pet.create(data) inserts: the schema's paths of data and a *)
(* new _id.                                                                *)
Doc(data) == [_id |-> ObjectId(Len(store) + 1),
              name |-> data["name"],
              owner_name |-> data["owner_name"]]

CreateReplaces(data) == <<Doc(data)>>

(* Pet.create(data), once validated: one document is inserted. *)
Create(data) == Append(store, Doc(data))

FindSkipsFirst == IF store = <<>> THEN store ELSE Tail(store)

(* Pet.find({}): every document of the collection. *)
Find == store

(***************************************************************************)
(* Requests and responses                                                  *)
(***************************************************************************)

(* A URL text, by its parts; it is absolute when it has a scheme. *)
Url(scheme, host, path) == [scheme |-> scheme, host |-> host, path |-> path]

RequestUrl == Url("http", "localhost:3000", "/api/pets")

FormPage == Url("http", "localhost:3000", "/form")

RelativeRoot == Url("", "", "/")

NoError == [name |-> "none", paths |-> {}]

Json(status, success, data, error) ==
    [kind |-> "json", status |-> status, success |-> success, data |-> data,
     error |-> error, location |-> RelativeRoot]

Redirect(url, status) ==
    [kind |-> "redirect", status |-> status, success |-> TRUE, data |-> <<>>,
     error |-> NoError, location |-> url]

(* The handler's promise rejects: no response is built by the handler. *)
Uncaught == [kind |-> "uncaught", status |-> 0, success |-> FALSE,
             data |-> <<>>, error |-> [name |-> "MongooseError", paths |-> {}],
             location |-> RelativeRoot]

(* The rendered page: the placeholder paragraph or the list items. *)
Html(placeholder, items) ==
    [kind |-> IF placeholder THEN "placeholder" ELSE "list", status |-> 200,
     success |-> TRUE, data |-> items, error |-> NoError,
     location |-> RelativeRoot]

Failure(error) == Json(400, FALSE, <<>>, error)

(* new URL(input, base) *)
NewURL(input, base) ==
    IF input.scheme # "" THEN input ELSE [base EXCEPT !.path = input.path]

(* NextResponse.redirect(url, status): throws on a URL that is not         *)
(* absolute; the status defaults to 307.                                   *)
DefaultRedirectStatus == 307

NextResponseRedirect(url, status) ==
    IF url.scheme = ""
    THEN Failure([name |-> "Error", paths |-> {}])
    ELSE Redirect(url, status)

(* The bodies and headers a client sends. *)
FieldValues == {Str("a", 0), Str("R", 1), Str("a", MaxLength), Str("a", MaxLength + 1)}

(* The forms sent: no field, or both fields with at most one of them other *)
(* than "R", or one field "R" and the other absent.                        *)
Forms ==
    {f \in UNION {[keys -> FieldValues] : keys \in SUBSET Paths} :
        \/ DOMAIN f = {}
        \/ \E path \in DOMAIN f : f[path] = Str("R", 1)}

Bodies == [form : Forms, parses : {TRUE}] \cup [form : {<<>>}, parses : {FALSE}]

NoBody == [form |-> <<>>, parses |-> FALSE]

Headers == {<<>>, [k \in {"referer"} |-> FormPage]}

Reqs == 1..Len(reqs)

Done == {r \in Reqs : reqs[r].pc = "done"}

(* A request, when its handler is called.  The body is recorded when the   *)
(* handler ends and the headers when it reads them; `after` (the requests  *)
(* answered before the handler was called) and `created` (the _id the      *)
(* request inserted) are history.                                          *)
NewReq(handler) ==
    [handler |-> handler, body |-> NoBody, headers |-> <<>>,
     pc |-> "dbConnect", after |-> Done, created |-> Null,
     response |-> Uncaught]

(* `await dbConnect()` has completed in request r. *)
AfterDbConnect(r, handler) ==
    /\ reqs[r].handler = handler
    /\ reqs[r].pc = "dbConnect"
    /\ calls[r].pc \in {"returned", "threw"}

Respond(r, response, created) ==
    reqs' = [reqs EXCEPT ![r].pc = "done", ![r].response = response,
                         ![r].created = created]

(***************************************************************************)
(* app/api/pets/route.js                                                   *)
(***************************************************************************)

(* GET, up to `await dbConnect()` *)
GET ==
    /\ dbConnect
    /\ reqs' = Append(reqs, NewReq("GET"))
    /\ UNCHANGED <<env, route, store>>

(* GET, from the return of dbConnect: a rejection of dbConnect is outside  *)
(* the try block; Pet.find either throws (storeFails) or yields the        *)
(* documents.                                                              *)
GETtry(r, storeFails) ==
    /\ AfterDbConnect(r, "GET")
    /\ IF calls[r].pc = "threw"
       THEN Respond(r, Uncaught, Null)
       ELSE IF storeFails
            THEN Respond(r, Failure([name |-> "MongoError", paths |-> {}]), Null)
            ELSE Respond(r, Json(200, TRUE, Find, NoError), Null)
    /\ UNCHANGED <<connVars, env, route, store>>

(* POST, up to `await dbConnect()` *)
POST ==
    /\ dbConnect
    /\ reqs' = Append(reqs, NewReq("POST"))
    /\ UNCHANGED <<env, route, store>>

(* request.headers.get('referer') || '/' *)
RedirectUrl(headers) ==
    IF "referer" \in DOMAIN headers /\ headers["referer"] # Url("", "", "")
    THEN headers["referer"] ELSE RelativeRoot

(* The statements after Pet.create: the redirect of either variant. *)
RedirectBack(variant, headers) ==
    IF variant = "referer"
    THEN NextResponseRedirect(RedirectUrl(headers), 303)
    ELSE NextResponseRedirect(NewURL(RelativeRoot, RequestUrl), DefaultRedirectStatus)

(* The response of a POST together with what it read of the request. *)
RespondPost(r, body, headers, response, created) ==
    reqs' = [reqs EXCEPT ![r] = [@ EXCEPT !.pc = "done", !.body = body,
                                          !.headers = headers,
                                          !.response = response,
                                          !.created = created]]

(* POST, from the return of dbConnect, on a request with this body and     *)
(* these headers: a rejection of dbConnect is outside the try block;       *)
(* request.formData() throws on a body that is no form; Pet.create throws  *)
(* on a validation error or a store error (storeFails), and inserts        *)
(* otherwise.  The headers are read after the insertion only.              *)
POSTtry(r, body, headers, storeFails) ==
    /\ AfterDbConnect(r, "POST")
    /\ LET data == body.form
       IN IF calls[r].pc = "threw"
          THEN RespondPost(r, body, <<>>, Uncaught, Null) /\ UNCHANGED store
          ELSE IF ~body.parses
          THEN /\ RespondPost(r, body, <<>>,
                              Failure([name |-> "TypeError", paths |-> {}]), Null)
               /\ UNCHANGED store
          ELSE IF PetSchema(data) # {}
          THEN /\ RespondPost(r, body, <<>>,
                              Failure([name |-> "ValidationError",
                                       paths |-> PetSchema(data)]), Null)
               /\ UNCHANGED store
          ELSE IF storeFails
          THEN /\ RespondPost(r, body, <<>>,
                              Failure([name |-> "MongoError", paths |-> {}]), Null)
               /\ UNCHANGED store
          ELSE /\ store' = Create(data)
               /\ RespondPost(r, body, headers, RedirectBack(route, headers),
                              Doc(data)._id.oid)
    /\ UNCHANGED <<connVars, env, route>>

(***************************************************************************)
(* app/page.js                                                             *)
(***************************************************************************)

(* Home calls getPets, which runs up to `await dbConnect()` *)
Home ==
    /\ dbConnect
    /\ reqs' = Append(reqs, NewReq("Home"))
    /\ UNCHANGED <<env, route, store>>

(* result.map(doc => { pet = doc.toObject(); pet._id = pet._id.toString() }) *)
Serialize(result) ==
    [i \in 1..Len(result) |-> [result[i] EXCEPT !._id = toString(result[i]._id)]]

(* getPets from the return of dbConnect, and the rendering by Home: no     *)
(* try block surrounds either.                                             *)
getPets(r, storeFails) ==
    /\ AfterDbConnect(r, "Home")
    /\ IF calls[r].pc = "threw" \/ storeFails
       THEN Respond(r, Uncaught, Null)
       ELSE LET pets == Serialize(Find)
            IN Respond(r, Html(Len(pets) = 0, pets), Null)
    /\ UNCHANGED <<connVars, env, route, store>>

(* The import of lib/mongodb.js by the route or the page throws: the       *)
(* request fails with no handler called.                                   *)
RouteImportThrows(handler) ==
    /\ ImportThrows
    /\ reqs' = Append(reqs, [NewReq(handler) EXCEPT !.pc = "done"])
    /\ UNCHANGED <<env, route, store>>

InvokeHandler ==
    /\ Invoke(MaxReq)
    /\ Len(reqs) + Cardinality(Queued("start")) < MaxReq
    /\ UNCHANGED appVars

Next ==
    \/ InvokeHandler
    \/ GET
    \/ POST
    \/ Home
    \/ \E handler \in {"GET", "POST", "Home"} : RouteImportThrows(handler)
    \/ ConnectSucceeds
    \/ ConnectFails
    \/ PromiseSettles
    \/ CallerResumes
    \/ \E r \in Reqs, f \in BOOLEAN : GETtry(r, f)
    \/ \E r \in Reqs, b \in Bodies, h \in Headers, f \in BOOLEAN :
          POSTtry(r, b, h, f)
    \/ \E r \in Reqs, f \in BOOLEAN : getPets(r, f)

Spec == Init /\ [][Next]_vars

(***************************************************************************)
(* Properties of the connection cache                                      *)
(***************************************************************************)

Calls == 1..Len(calls)

(* The call a step starts, when it starts one. *)
Started == Len(calls') = Len(calls) + 1

(* C1: as long as the first connection attempt has not resolved, every     *)
(* dbConnect call awaits it and mongoose.connect has been called exactly   *)
(* once; when it succeeds no caller of it throws, each of them returns the *)
(* one handle, which is the handle cached, and no second connect is made.  *)
C1_SingleConnect ==
    Len(attempts) >= 1 =>
        /\ attempts[1] = "pending" =>
              /\ Len(attempts) = 1
              /\ \A c \in Calls : calls[c].att = 1 /\ calls[c].pc = "awaiting"
        /\ attempts[1] = "fulfilled" =>
              /\ Len(attempts) = 1
              /\ \A c \in Calls : calls[c].att = 1 =>
                    /\ calls[c].pc \in {"queued", "returned"}
                    /\ calls[c].pc = "returned" =>
                          calls[c].result = Mongoose /\ cached.conn = Mongoose

C1_Witness ==
    /\ Len(attempts) = 1
    /\ attempts[1] = "fulfilled"
    /\ Cardinality({c \in Calls : /\ calls[c].att = 1
                                  /\ calls[c].pc = "returned"
                                  /\ calls[c].result = Mongoose}) >= 3

(* C2: at most one connection attempt is pending at any time, and a        *)
(* dbConnect call that starts while an attempt is pending awaits that      *)
(* attempt.                                                                *)
C2_OneAttemptInFlight ==
    /\ [](Cardinality(Pending) <= 1)
    /\ [][Started => \A a \in Pending : calls'[Len(calls')].att = a]_vars

(* C3: when the continuation of a caller of a failed attempt runs, that    *)
(* caller receives the error, cached.conn is null and cached.promise is    *)
(* null; a call started once a caller has received the failure of an       *)
(* attempt does not await that attempt, and with nothing cached it starts  *)
(* a new attempt.                                                          *)
C3_FailureClearsCache ==
    [][/\ ( /\ microtasks # <<>>
            /\ Head(microtasks).type = "resume"
            /\ attempts[calls[Head(microtasks).id].att] = "rejected"
            /\ microtasks' = Tail(microtasks) ) =>
              /\ calls'[Head(microtasks).id].pc = "threw"
              /\ cached'.conn = Null
              /\ cached'.promise = Null
       /\ Started =>
              /\ \A c \in Calls : calls[c].pc = "threw" =>
                    calls'[Len(calls')].att # calls[c].att
              /\ (cached.conn = Null /\ cached.promise = Null) =>
                    /\ Len(attempts') = Len(attempts) + 1
                    /\ calls'[Len(calls')].att = Len(attempts')
                    /\ attempts'[Len(attempts')] = "pending"]_vars

(* C4: once a handle is cached it is never cleared or replaced, no further *)
(* mongoose.connect call is made, and every dbConnect call started from    *)
(* then on returns the cached handle.                                      *)
C4_HandleStays ==
    [][cached.conn # Null =>
          /\ cached'.conn = cached.conn
          /\ Len(attempts') = Len(attempts)
          /\ Started => /\ calls'[Len(calls')].pc = "returned"
                        /\ calls'[Len(calls')].result = cached.conn]_vars

C4_Witness ==
    /\ cached.conn = Mongoose
    /\ \E c, d \in Calls : /\ c # d
                           /\ calls[c].pc = "returned" /\ calls[c].att = Null
                           /\ calls[d].pc = "returned" /\ calls[d].att = Null
                           /\ calls[c].result = Mongoose
                           /\ calls[d].result = Mongoose

(***************************************************************************)
(* Properties of the handlers, the schema and the page                     *)
(***************************************************************************)

(* The request whose handler ends in this step. *)
Ends(r) == reqs[r].pc = "dbConnect" /\ reqs'[r].pc = "done"

(* A field of a form that is present, non-empty and of at most 60          *)
(* characters.                                                             *)
FieldOk(form, path) ==
    path \in DOMAIN form /\ Len(form[path]) >= 1 /\ Len(form[path]) <= 60

FormOk(body) ==
    body.parses /\ FieldOk(body.form, "name") /\ FieldOk(body.form, "owner_name")

IsFailure(response) ==
    /\ response.kind = "json"
    /\ response.status = 400
    /\ response.success = FALSE
    /\ response.error # NoError

(* C5: every record of the store has a name and an owner_name of 1 to 60   *)
(* characters.                                                             *)
C5_StoredPetsValid ==
    \A i \in 1..Len(store) :
        /\ Len(store[i].name) >= 1 /\ Len(store[i].name) <= 60
        /\ Len(store[i].owner_name) >= 1 /\ Len(store[i].owner_name) <= 60

C5_Witness ==
    /\ Len(store) = 2
    /\ \E i \in 1..Len(store) : Len(store[i].name) = 60
    /\ \E i \in 1..Len(store) : Len(store[i].owner_name) = 1

(* C6: a POST with both fields of 1 to 60 characters, whose connection     *)
(* step and store operation did not fail, is answered with the redirect,   *)
(* has stored exactly one record with the two values and a non-empty id,   *)
(* and every list (GET /pets or the page) whose handler was called after   *)
(* the POST was answered contains that record.                             *)
C6_ValidPostListed ==
    \A r \in Done :
        ( /\ reqs[r].handler = "POST"
          /\ FormOk(reqs[r].body)
          /\ calls[r].pc = "returned"
          /\ reqs[r].response.error.name # "MongoError" ) =>
            /\ reqs[r].response.kind = "redirect"
            /\ reqs[r].created # Null
            /\ Cardinality({i \in 1..Len(store) :
                              store[i]._id = ObjectId(reqs[r].created)}) = 1
            /\ \A i \in 1..Len(store) :
                  store[i]._id = ObjectId(reqs[r].created) =>
                      /\ store[i].name = reqs[r].body.form["name"]
                      /\ store[i].owner_name = reqs[r].body.form["owner_name"]
                      /\ Len(toString(store[i]._id)) > 0
            /\ \A q \in Done :
                  ( /\ r \in reqs[q].after
                    /\ \/ reqs[q].handler = "GET" /\ reqs[q].response.status = 200
                       \/ reqs[q].response.kind \in {"list", "placeholder"} ) =>
                      \E i \in 1..Len(reqs[q].response.data) :
                          LET pet == reqs[q].response.data[i]
                          IN /\ pet.name = reqs[r].body.form["name"]
                             /\ pet.owner_name = reqs[r].body.form["owner_name"]
                             /\ pet._id \in {ObjectId(reqs[r].created),
                                             toString(ObjectId(reqs[r].created))}

(* C7: the handler of a POST whose name or owner_name is missing, empty or *)
(* longer than 60 characters ends with the 400 failure response and leaves *)
(* the store as it was.                                                    *)
C7_InvalidPostRejected ==
    [][\A r \in Reqs :
          ( /\ Ends(r)
            /\ reqs[r].handler = "POST"
            /\ reqs'[r].body.parses
            /\ ~FormOk(reqs'[r].body) ) =>
              /\ IsFailure(reqs'[r].response)
              /\ store' = store]_vars

(* C8: every GET ends in the 200 success response or the 400 failure       *)
(* response, and every POST in a redirect or the 400 failure response.     *)
C8_AlwaysAnswered ==
    \A r \in Done :
        /\ reqs[r].handler = "GET" =>
              \/ /\ reqs[r].response.kind = "json"
                 /\ reqs[r].response.status = 200
                 /\ reqs[r].response.success = TRUE
              \/ IsFailure(reqs[r].response)
        /\ reqs[r].handler = "POST" =>
              \/ reqs[r].response.kind = "redirect"
              \/ IsFailure(reqs[r].response)

(* C9: a POST that created a record is answered with a redirect of status  *)
(* 303 or 302 to the referrer when one was sent and to the site root       *)
(* otherwise.                                                              *)
C9_RedirectAfterCreate ==
    \A r \in Done :
        (reqs[r].handler = "POST" /\ reqs[r].created # Null) =>
            /\ reqs[r].response.kind = "redirect"
            /\ reqs[r].response.status \in {303, 302}
            /\ reqs[r].response.location \in
                  IF "referer" \in DOMAIN reqs[r].headers
                  THEN {reqs[r].headers["referer"]}
                  ELSE {RelativeRoot, Url("http", "localhost:3000", "/")}

(* C10: a GET that ends in the success response reports the records of the *)
(* store at that step, all of them and in the store's order; a page that   *)
(* is rendered shows the placeholder and no item when the store is empty,  *)
(* and otherwise one item per record of the store, with the record's name  *)
(* and owner_name and the string of its _id.                               *)
C10_ListIsStore ==
    [][\A r \in Reqs : Ends(r) =>
          LET response == reqs'[r].response
          IN /\ ( /\ reqs[r].handler = "GET"
                  /\ response.success ) =>
                    /\ response.status = 200
                    /\ response.data = store
             /\ ( /\ reqs[r].handler = "Home"
                  /\ response.kind # "uncaught" ) =>
                    /\ response.kind = IF Len(store) = 0 THEN "placeholder"
                                                         ELSE "list"
                    /\ Len(response.data) = Len(store)
                    /\ \A i \in 1..Len(store) :
                          /\ response.data[i].name = store[i].name
                          /\ response.data[i].owner_name = store[i].owner_name
                          /\ response.data[i]._id = toString(store[i]._id)]_vars

C10_Witness ==
    \E q \in Done :
        /\ reqs[q].handler = "Home"
        /\ reqs[q].response.kind = "list"
        /\ Len(reqs[q].response.data) = 1
        /\ Len(store) = 1

(* C11: no step removes or changes a record of the store; a step adds at   *)
(* most one record, at the end; the steps of GET and of the page leave the *)
(* store as it is.                                                         *)
C11_StoreAppendOnly ==
    [][/\ Len(store') \in {Len(store), Len(store) + 1}
       /\ SubSeq(store', 1, Len(store)) = store
       /\ \A r \in Reqs :
             (Ends(r) /\ reqs[r].handler \in {"GET", "Home"}) =>
                 store' = store]_vars

C11_Witness ==
    /\ Len(store) = 2
    /\ store[1]._id # store[2]._id
    /\ \A r \in Reqs : reqs[r].pc = "done" /\ reqs[r].created # Null

(* C12: with MONGODB_URI absent from the environment, mongoose.connect is  *)
(* never called, dbConnect is never entered, nothing is stored, and every  *)
(* request, from the first one on, fails without a response from the       *)
(* store.                                                                  *)
C12_NoUriNoConnect ==
    "MONGODB_URI" \notin DOMAIN env =>
        /\ attempts = <<>>
        /\ calls = <<>>
        /\ cached = [conn |-> Null, promise |-> Null]
        /\ store = <<>>
        /\ \A r \in Reqs : /\ reqs[r].pc = "done"
                           /\ reqs[r].response.kind = "uncaught"
                           /\ reqs[r].response.data = <<>>

C12_Witness ==
    /\ "MONGODB_URI" \notin DOMAIN env
    /\ Len(reqs) = 2
    /\ reqs[1].handler = "GET"
    /\ reqs[2].handler = "POST"
    /\ \A r \in Reqs : reqs[r].response.kind = "uncaught"

(* C13: under either variant of the route, a POST answered with the 400    *)
(* failure response has inserted no record.                                *)
C13_FailureMeansNoWrite ==
    \A r \in Done :
        (reqs[r].handler = "POST" /\ IsFailure(reqs[r].response)) =>
            /\ reqs[r].created = Null
            /\ \A i \in 1..Len(store) :
                  \E q \in Done \ {r} : store[i]._id = ObjectId(reqs[q].created)

====
